---- MODULE Spec2Model ----
(***************************************************************************)
(* Model of the RAG engine of sammyai_v1: the chunker of rag/indexer.py,   *)
(* the vector store of rag/vector_store.py and the facade of               *)
(* rag/rag_system.py.                                                      *)
(*                                                                         *)
(* Texts are sequences of one-character strings; Python's 0-based offsets  *)
(* are kept (character i of the text is text[i + 1]).                      *)
(***************************************************************************)
EXTENDS Integers, Sequences, FiniteSets, TLC

VARIABLES
    \* chunk_text (indexer.py): its arguments, the indexer's configuration and
    \* its local variables (ck.pc is the position in the function)
    text, chunk_size, overlap, ck,
    \* VectorStore (vector_store.py): the records of the Chroma collection
    collection,
    \* the last call made on the store or the facade: its arguments, what it
    \* returned or raised, and count() before it (kept for the properties)
    last,
    \* the file system: the content of each path, or NoFile
    files,
    \* EmbeddingManager's cache: the vectors stored under each cache key
    cache,
    \* ContextRetriever.active_files
    active_files,
    \* time.time(), in seconds
    now,
    \* RAGSystem._last_context_time, _last_context_query, _last_context_result
    ctx,
    \* TextEditor (text_editor.py): _indexing_in_progress, the holder of
    \* _indexing_lock, and the position of the GUI thread, of the manual
    \* index workers and of the chat workers
    editor,
    \* DiffManager (diff_manager.py): _history and _current_index
    diff_manager,
    \* ChatManager (chat_manager.py): sessions and active_session_id
    chat_manager

chunkVars == <<text, chunk_size, overlap, ck>>

ragVars == <<files, cache, active_files, now, ctx>>

vars == <<text, chunk_size, overlap, ck, collection, last,
          files, cache, active_files, now, ctx, editor, diff_manager, chat_manager>>

appVars == <<diff_manager, chat_manager>>

\* ------------------------------------------------------------------ bounds

\* Longest enumerated text handed to chunk_text.
MaxTextLen == 5

\* Length of the long unbroken text (long enough for the iteration cap).
LongTextLen == 206

\* Longest list handed to add_documents in one call.
MaxBatch == 2

\* RAGSystem(max_documents=...): the ceiling on count().
max_documents == 3

\* RAGSystem(max_chunks_per_file=...): the ceiling on the chunks of one file.
max_chunks_per_file == 2

\* RAGSystem(max_context_tokens=...): the budget of the context builder.
max_context_tokens == 3

\* The last second of the clock.
MaxTime == 3

\* ------------------------------------------------------- program constants

\* indexer.py:128, the slack added to the iteration cap.
IterationSlack == 100

\* rag_system.py:70, self._context_cooldown, in seconds.
context_cooldown == 2

\* ------------------------------------------------------------- characters

SP == " "
NL == "NL"
DOT == "."

\* What str.strip() removes, within the alphabet of the model.
Whitespace == {SP, NL}

Alphabet == {"a", SP, NL, DOT}

Min(a, b) == IF a < b THEN a ELSE b

Max(a, b) == IF a > b THEN a ELSE b

\* text[s:e] for 0 <= s, e (Python clamps e to the length).
Slice(t, s, e) == SubSeq(t, s + 1, Min(e, Len(t)))

\* text.rfind(sub, s, e): the highest i with s <= i, i + len(sub) <= e and
\* text[i : i + len(sub)] = sub, or -1.
Highest(hits) ==
    IF hits = {} THEN -1 ELSE CHOOSE i \in hits : \A j \in hits : j <= i

Rfind(t, sub, s, e) ==
    Highest({i \in s..(Min(e, Len(t)) - Len(sub)) :
                \A k \in 1..Len(sub) : t[i + k] = sub[k]})

\* text.strip()
StripTo(t, keep) ==
    IF keep = {} THEN <<>>
    ELSE SubSeq(t, CHOOSE i \in keep : \A j \in keep : i <= j,
                   CHOOSE i \in keep : \A j \in keep : j <= i)

Strip(t) == StripTo(t, {i \in 1..Len(t) : t[i] \notin Whitespace})

\* ----------------------------------------------------------------- chunker

\* min_progress = max(1, self.overlap + 1)
MinProgress(ov) == Max(1, ov + 1)

\* max_iterations = len(text) // min_progress + 100
MaxIterations(t, ov) == (Len(t) \div MinProgress(ov)) + IterationSlack

\* The boundary search of one window: paragraph break, line break, sentence
\* end, any space, each tried only when the one before it found nothing.
OrElse(break_pos, next) == IF break_pos = -1 THEN next ELSE break_pos

BreakPos(t, s, e) ==
    OrElse(OrElse(OrElse(Rfind(t, <<NL, NL>>, s, e),
                         Rfind(t, <<NL>>, s, e)),
                  Rfind(t, <<DOT, SP>>, s, e)),
           Rfind(t, <<SP>>, s, e))

\* The mutant of UseBreak that takes any break point after start.
UseBreakAnyProgress(t, ov, s, end, break_pos) ==
    IF end < Len(t) /\ break_pos > s THEN break_pos + 1 ELSE end

\* if end < len(text): ... if break_pos > start + min_progress:
\*     end = break_pos + 1
UseBreak(t, ov, s, end, break_pos) ==
    IF end < Len(t) /\ break_pos > s + MinProgress(ov) THEN break_pos + 1 ELSE end

\* end of the window that starts at s, after the boundary search and the clamp.
WindowEnd(t, cs, ov, s) ==
    Min(UseBreak(t, ov, s, s + cs, BreakPos(t, s, s + cs)), Len(t))

\* The mutant of NextStart that drops the forced advance.
NextStartNoForce(ov, s, end) == end - ov

\* The mutant of NextStart that resumes one character past the window.
NextStartSkip(ov, s, end) == end + 1

\* The mutant of NextStart that steps back one character more than overlap.
NextStartDeeper(ov, s, end) ==
    IF end - ov - 1 <= s THEN s + MinProgress(ov) ELSE end - ov - 1

\* next_start = end - overlap, forced forward when that is no progress.
NextStart(ov, s, end) ==
    IF end - ov <= s THEN s + MinProgress(ov) ELSE end - ov

\* The state of the local variables of chunk_text before its loop.
ChunkInit == [start |-> 0, chunk_index |-> 0, iteration |-> 0, end |-> 0,
              chunks |-> <<>>, pc |-> "loop", capped |-> FALSE]

\* The mutant of ChunkEmit that counts the windows that gave no chunk too.
ChunkEmitCountsAll(ov, c, end, chunk_text) ==
    [c EXCEPT !.iteration = @ + 1,
              !.end = end,
              !.chunks = IF chunk_text # <<>>
                         THEN Append(@, [chunk_index |-> c.chunk_index,
                                         start_char |-> c.start,
                                         end_char |-> end, text |-> chunk_text])
                         ELSE @,
              !.chunk_index = @ + 1,
              !.start = IF end - ov <= c.start THEN c.start + MinProgress(ov)
                        ELSE end - ov]

\* The end of a pass: the chunk is kept if its stripped text is not empty,
\* and start moves on.
ChunkEmit(ov, c, end, chunk_text) ==
    [c EXCEPT !.iteration = @ + 1,
              !.end = end,
              !.chunks = IF chunk_text # <<>>
                         THEN Append(@, [chunk_index |-> c.chunk_index,
                                         start_char |-> c.start,
                                         end_char |-> end, text |-> chunk_text])
                         ELSE @,
              !.chunk_index = IF chunk_text # <<>> THEN @ + 1 ELSE @,
              !.start = NextStart(ov, c.start, end)]

\* chunk_text = text[start:end].strip()
ChunkWindow(t, ov, c, end) == ChunkEmit(ov, c, end, Strip(Slice(t, c.start, end)))

\* One pass of the loop head and body, for start < len(text).
ChunkIter(t, cs, ov, c) ==
    IF c.iteration + 1 > MaxIterations(t, ov)
    THEN [c EXCEPT !.iteration = @ + 1, !.pc = "done", !.capped = TRUE]
    ELSE ChunkWindow(t, ov, c, WindowEnd(t, cs, ov, c.start))

\* The while loop: its test, then a pass.
ChunkLoopStep(t, cs, ov, c) ==
    IF c.start < Len(t) THEN ChunkIter(t, cs, ov, c) ELSE [c EXCEPT !.pc = "done"]

RECURSIVE ChunkRun(_, _, _, _)
ChunkRun(t, cs, ov, c) ==
    IF c.pc = "done" THEN c ELSE ChunkRun(t, cs, ov, ChunkLoopStep(t, cs, ov, c))

\* chunk_text(text, metadata): the list of chunks.
ChunkText(t, cs, ov) ==
    IF Strip(t) = <<>> THEN <<>> ELSE ChunkRun(t, cs, ov, ChunkInit).chunks

\* ------------------------------------------------------------ vector store

\* The file paths of the model (absolute paths).
Paths == {"/A", "/B"}

\* get_document_count(): collection.count()
Count(coll) == Cardinality(coll)

\* get_all_file_paths(): the distinct file_path values of the stored metadata.
AllFilePaths(coll) == {r.metadata.file_path : r \in coll}

\* collection.get(where={"file_path": p})["ids"]
IdsOfFile(coll, p) == {r.id : r \in {x \in coll : x.metadata.file_path = p}}

\* collection.delete(ids=...)
CollectionDelete(coll, ids) == {r \in coll : r.id \notin ids}

\* The mutant of DeleteByFile that deletes what an unfiltered get() returns.
DeleteByFileUnfiltered(coll, p) == CollectionDelete(coll, {r.id : r \in coll})

\* The mutant of DeleteByFile that deletes nothing.
DeleteByFileNothing(coll, p) == coll

\* delete_by_file(file_path): no error reaches the caller.
DeleteByFile(coll, p) == CollectionDelete(coll, IdsOfFile(coll, p))

\* clear_collection(): the collection is deleted and created again.
ClearCollection(coll) == {}

\* The sequences as Chroma's add() takes them: it refuses sequences whose
\* lengths differ from that of ids, and does not touch a record whose id is
\* already stored.
CollectionAdd(coll, ids, embs, docs, metas) ==
    IF Len(embs) # Len(ids) \/ Len(metas) # Len(ids) \/ Len(docs) # Len(ids)
    THEN [raised |-> "BackendError", collection |-> coll]
    ELSE [raised |-> "none",
          collection |-> coll \cup
              {[id |-> ids[i], document |-> docs[i], embedding |-> embs[i],
                metadata |-> metas[i]] :
                  i \in {j \in 1..Len(ids) : \A r \in coll : r.id # ids[j]}}]

\* The test add_documents makes before it calls the backend:
\* not chunk_ids or len(chunk_ids) != len(texts) != len(embeddings) != len(metadatas)
\* (a chained comparison: each neighbouring pair must differ).
AddGuardRaises(ids, texts, embs, metas) ==
    \/ ids = <<>>
    \/ (Len(ids) # Len(texts) /\ Len(texts) # Len(embs) /\ Len(embs) # Len(metas))

\* add_documents(chunk_ids, texts, embeddings, metadatas): what it raises and
\* the collection it leaves. A backend error is printed and raised again.
AddDocuments(coll, ids, texts, embs, metas) ==
    IF AddGuardRaises(ids, texts, embs, metas)
    THEN [raised |-> "ValueError: All input lists must have the same length",
          collection |-> coll]
    ELSE CollectionAdd(coll, ids, embs, texts, metas)

\* ------------------------------------------------------------------ facade

NoFile == <<"NoFile">>

\* None, where the code holds an optional value (Some(x) otherwise).
None == <<>>

Some(x) == <<x>>

\* What a file can hold: one to three windows of text, or only whitespace.
FileTexts ==
    {<<"a", "b">>, <<"c", "d">>, <<"a", "b", "c", "d">>,
     <<"a", "b", "c", "d", "e", "f">>, <<SP>>}

\* _generate_chunk_id(file_path, chunk_index): the md5 of
\* f"{file_path}:{chunk_index}".
GenerateChunkId(p, chunk_index) == <<"md5", p, chunk_index>>

\* The Document objects of chunk_text's chunks of the file p: the chunk id,
\* the text, and the path and position as metadata.
IndexerDocs(p, docs) ==
    [i \in 1..Len(docs) |->
        [chunk_id |-> GenerateChunkId(p, docs[i].chunk_index),
         text |-> docs[i].text,
         metadata |-> [file_path |-> p,
                       chunk_index |-> docs[i].chunk_index,
                       start_char |-> docs[i].start_char,
                       end_char |-> docs[i].end_char]]]

\* FileIndexer.index_file(path): parse_file gives None for a missing file,
\* and then no chunk; the chunks carry the path and their position.
IndexerIndexFile(fs, p, cs, ov) ==
    IF fs[p] = NoFile THEN <<>>
    ELSE IndexerDocs(p, ChunkText(fs[p], cs, ov))

\* _get_file_hash(file_path): the md5 of the path, the cache key.
FileHash(p) == <<"md5", p>>

\* EmbeddingManager.generate_embedding(text): one vector per text, the same
\* for the same text.
Embed(t) == <<"vec", t>>

\* EmbeddingManager.batch_generate(texts): order and count kept.
BatchGenerate(texts) == [i \in 1..Len(texts) |-> Embed(texts[i])]

\* EmbeddingManager.load_cached_embeddings(key): the vectors, or None.
LoadCachedEmbeddings(cch, key) ==
    IF \E e \in cch : e.key = key
    THEN Some((CHOOSE e \in cch : e.key = key).vectors)
    ELSE None

\* How many vectors the cache holds for the key, -1 if it has no entry.
CachedCount(cch, key) ==
    IF \E e \in cch : e.key = key
    THEN Len((CHOOSE e \in cch : e.key = key).vectors)
    ELSE -1

\* EmbeddingManager.cache_embeddings(key, vectors): one blob per key.
CacheEmbeddings(cch, key, vectors) ==
    {e \in cch : e.key # key} \cup {[key |-> key, vectors |-> vectors]}

\* EmbeddingManager.clear_cache()
ClearCache(cch) == {}

\* The mutant of OverLimit that never refuses.
OverLimitNever(current_count, n) == FALSE

\* The mutant of OverLimit that lets one document too many in.
OverLimitOffByOne(current_count, n) == current_count + n > max_documents + 1

\* current_count + len(chunks) > self.max_documents
OverLimit(current_count, n) == current_count + n > max_documents

\* The mutant of AlreadyIndexed that takes every path for indexed.
AlreadyIndexedAlways(coll, p) == TRUE

\* file_path in self.vector_store.get_all_file_paths()
AlreadyIndexed(coll, p) == p \in AllFilePaths(coll)

\* chunks = chunks[:self.max_chunks_per_file]
TruncateChunks(all) ==
    IF Len(all) > max_chunks_per_file THEN SubSeq(all, 1, max_chunks_per_file) ELSE all

\* texts = [chunk.text for chunk in chunks]
ChunkTexts(chunks) == [i \in 1..Len(chunks) |-> chunks[i].text]

\* What can go wrong inside a call of index_file: nothing, batch_generate
\* raises (the embedding model), or the backend's add raises.
Failures == {"none", "embed", "store"}

\* The mutant of IndexEmbeddings that takes whatever the cache has.
IndexEmbeddingsAnySize(cch, key, texts, fail) ==
    LET cached == LoadCachedEmbeddings(cch, key)
    IN  IF cached = None
        THEN [embeddings |-> BatchGenerate(texts),
              cache |-> CacheEmbeddings(cch, key, BatchGenerate(texts)),
              raised |-> FALSE]
        ELSE [embeddings |-> cached[1], cache |-> cch, raised |-> FALSE]

\* "Step 2": the cached vectors of the key if there are as many as texts,
\* else new vectors, which are cached: [embeddings, cache, raised].
IndexEmbeddings(cch, key, texts, fail) ==
    LET cached == LoadCachedEmbeddings(cch, key)
    IN  IF cached = None \/ Len(cached[1]) # Len(texts)
        THEN IF fail = "embed"
             THEN [embeddings |-> <<>>, cache |-> cch, raised |-> TRUE]
             ELSE [embeddings |-> BatchGenerate(texts),
                   cache |-> CacheEmbeddings(cch, key, BatchGenerate(texts)),
                   raised |-> FALSE]
        ELSE [embeddings |-> cached[1], cache |-> cch, raised |-> FALSE]

\* What index_file returns after add_documents: False if it raised.
IndexReturn(added, cch1) ==
    [ret |-> added.raised = "none", collection |-> added.collection, cache |-> cch1]

\* The mutant of IndexStore that reports success whatever happened.
IndexStoreDeaf(coll1, chunks, emb, fail) ==
    [ret |-> TRUE, collection |-> coll1, cache |-> emb.cache]

\* "Step 3": the chunks go to the store with their vectors; an exception
\* of step 2 or of the backend ends the call in "except: return False".
IndexStore(coll1, chunks, emb, fail) ==
    IF emb.raised \/ fail = "store"
    THEN [ret |-> FALSE, collection |-> coll1, cache |-> emb.cache]
    ELSE IndexReturn(AddDocuments(coll1,
                                  [i \in 1..Len(chunks) |-> chunks[i].chunk_id],
                                  ChunkTexts(chunks), emb.embeddings,
                                  [i \in 1..Len(chunks) |-> chunks[i].metadata]),
                     emb.cache)

\* The second limit check, on the count read when the call began.
IndexChunks(coll1, cch, p, current_count, chunks, fail) ==
    IF OverLimit(current_count, Len(chunks))
    THEN [ret |-> FALSE, collection |-> coll1, cache |-> cch]
    ELSE IndexStore(coll1, chunks,
                    IndexEmbeddings(cch, FileHash(p), ChunkTexts(chunks), fail),
                    fail)

\* if not chunks: return False; then the cut to max_chunks_per_file.
IndexParsed(coll1, cch, p, current_count, all, fail) ==
    IF all = <<>> THEN [ret |-> FALSE, collection |-> coll1, cache |-> cch]
    ELSE IndexChunks(coll1, cch, p, current_count, TruncateChunks(all), fail)

\* index_file from "Step 1" on, on the collection coll1 left by the first
\* checks: [ret, collection, cache].
IndexFileSteps(coll1, cch, fs, cs, ov, p, current_count, fail) ==
    IndexParsed(coll1, cch, p, current_count, IndexerIndexFile(fs, p, cs, ov), fail)

\* index_file(file_path, force_reindex): [ret, collection, cache]. Every
\* exception ends in "except Exception: return False".
IndexFile(coll, cch, fs, cs, ov, p, force_reindex, fail) ==
    LET current_count == Count(coll)
    IN  IF current_count >= max_documents /\ ~force_reindex
        THEN [ret |-> FALSE, collection |-> coll, cache |-> cch]
        ELSE IF ~force_reindex /\ AlreadyIndexed(coll, p)
        THEN [ret |-> TRUE, collection |-> coll, cache |-> cch]
        ELSE IndexFileSteps(IF force_reindex THEN DeleteByFile(coll, p) ELSE coll,
                            cch, fs, cs, ov, p, current_count, fail)

RECURSIVE IndexAll(_, _, _, _, _, _, _)
\* The loop of index_directory over the files in the order given, fails[i]
\* being what goes wrong in the i-th call of index_file:
\* [indexed_count, collection, cache, rets].
IndexAll(coll, cch, fs, cs, ov, order, fails) ==
    IF order = <<>>
    THEN [indexed_count |-> 0, collection |-> coll, cache |-> cch, rets |-> <<>>]
    ELSE LET one == IndexFile(coll, cch, fs, cs, ov, Head(order), FALSE, Head(fails))
             rest == IndexAll(one.collection, one.cache, fs, cs, ov,
                              Tail(order), Tail(fails))
         IN  [rest EXCEPT !.indexed_count = @ + (IF one.ret THEN 1 ELSE 0),
                          !.rets = <<one.ret>> \o @]

\* The orders in which rglob('*') can yield the files of the directory.
DirectoryOrders(fs) ==
    LET present == {p \in Paths : fs[p] # NoFile}
    IN  {o \in UNION {[1..n -> present] : n \in {Cardinality(present)}} :
            \A i, j \in DOMAIN o : i # j => o[i] # o[j]}

\* -------------------------------------- retrieval and context building

\* The queries of the model: a query is close to the texts that hold its
\* character.
Queries == {"a", "c"}

TopKs == {1, 2}

\* Similarity of the query's vector and a stored vector, as a whole number.
Similarity(q, v) == IF \E i \in 1..Len(v[2]) : v[2][i] = q THEN 2 ELSE 1

\* What is added to the score of a chunk of an active file.
ActiveBoost == 1

RECURSIVE RankDesc(_)
\* The scored records by descending score, equal scores in the backend's
\* order.
RankDesc(S) ==
    IF S = {} THEN <<>>
    ELSE LET best == CHOOSE x \in S : \A y \in S : y.score <= x.score
         IN  <<best>> \o RankDesc(S \ {best})

\* VectorStore.search(query_embedding, top_k): nothing on an empty
\* collection, else the min(top_k, count) nearest records.
Search(coll, q, top_k) ==
    IF Count(coll) = 0 THEN <<>>
    ELSE SubSeq(RankDesc({[chunk_id |-> r.id, text |-> r.document,
                           metadata |-> r.metadata,
                           score |-> Similarity(q, r.embedding)] : r \in coll}),
                1, Min(top_k, Count(coll)))

\* The mutant of StableSortDesc that leaves the results as the search gave
\* them.
KeepOrder(rs) == rs

RECURSIVE StableSortDesc(_)
\* Descending by score, equal scores in their first order (insertion sort).
StableSortDesc(rs) ==
    IF rs = <<>> THEN <<>>
    ELSE LET sorted == StableSortDesc(SubSeq(rs, 1, Len(rs) - 1))
             x == rs[Len(rs)]
             k == Cardinality({i \in 1..Len(sorted) : sorted[i].score >= x.score})
         IN  SubSeq(sorted, 1, k) \o <<x>> \o SubSeq(sorted, k + 1, Len(sorted))

\* ContextRetriever.retrieve(query, top_k, boost_active_files): search for
\* more than top_k when boosting, boost the chunks of active files, sort
\* again, keep top_k.
Retrieve(coll, act, q, top_k, boost) ==
    LET found == Search(coll, q, IF boost THEN 2 * top_k ELSE top_k)
        boosted == [i \in 1..Len(found) |->
                       IF boost /\ found[i].metadata.file_path \in act
                       THEN [found[i] EXCEPT !.score = @ + ActiveBoost]
                       ELSE found[i]]
        sorted == StableSortDesc(boosted)
    IN  SubSeq(sorted, 1, Min(top_k, Len(sorted)))

\* The results a search for the top_k nearest can give: the backend may
\* put chunks that are as near as each other in any order.
SearchResults(coll, q, top_k) ==
    LET scored == {[chunk_id |-> r.id, text |-> r.document,
                    metadata |-> r.metadata,
                    score |-> Similarity(q, r.embedding)] : r \in coll}
        n == Min(top_k, Count(coll))
    IN  {f \in [1..n -> scored] :
            /\ \A i, j \in 1..n : i < j => f[i] # f[j] /\ f[i].score >= f[j].score
            /\ \A x \in scored :
                  (\A i \in 1..n : f[i] # x) => \A i \in 1..n : x.score <= f[i].score}

\* retrieve with boosting, from the results of its search on.
RetrieveFound(found, act, top_k) ==
    LET sorted == StableSortDesc([i \in 1..Len(found) |->
                       IF found[i].metadata.file_path \in act
                       THEN [found[i] EXCEPT !.score = @ + ActiveBoost]
                       ELSE found[i]])
    IN  SubSeq(sorted, 1, Min(top_k, Len(sorted)))

\* The token estimate of a chunk: a quarter of its characters, rounded up.
EstimateTokens(t) == (Len(t) + 3) \div 4

\* The mutant of TakeWithin that keeps every result.
TakeAll(rs, budget) == rs

RECURSIVE TakeWithin(_, _)
\* The longest prefix of the results whose tokens fit the budget.
TakeWithin(rs, budget) ==
    IF rs = <<>> \/ EstimateTokens(rs[1].text) > budget THEN <<>>
    ELSE <<rs[1]>> \o TakeWithin(Tail(rs), budget - EstimateTokens(rs[1].text))

RECURSIVE TokenSum(_)
TokenSum(rs) ==
    IF rs = <<>> THEN 0 ELSE EstimateTokens(rs[1].text) + TokenSum(Tail(rs))

\* The FormattedContext of the results that were given and those kept.
Formatted(rs, kept) ==
    [chunks |-> kept, total_tokens |-> TokenSum(kept),
     truncated |-> Len(kept) < Len(rs)]

\* build(results, max_tokens): greedy inclusion within the budget.
Build(rs, max_tokens) == Formatted(rs, TakeWithin(rs, max_tokens))

\* ContextBuilder.build_context(retrieval_results, ...): the FormattedContext
\* within the facade's max_context_tokens.
BuildContext(rs) == Build(rs, max_context_tokens)

\* The mutant of CacheHit that never serves the stored result.
CacheHitNever(c, q, t) == FALSE

\* The mutant of CacheHit that serves the stored result for any query.
CacheHitAnyQuery(c, q, t) ==
    t - c.time < context_cooldown /\ c.result # None

\* The test at the head of get_context.
CacheHit(c, q, t) ==
    q = c.query /\ t - c.time < context_cooldown /\ c.result # None

\* The mutant of GetContext in which a served result gets the time of the
\* call that it is served to.
GetContextRefreshing(c, coll, act, t, q, top_k, boost) ==
    IF CacheHit(c, q, t)
    THEN [result |-> c.result[1], invoked |-> FALSE, ctx |-> [c EXCEPT !.time = t]]
    ELSE [result |-> BuildContext(Retrieve(coll, act, q, top_k, boost)),
          invoked |-> TRUE,
          ctx |-> [time |-> t, query |-> q,
                   result |-> Some(BuildContext(Retrieve(coll, act, q, top_k, boost)))]]

\* get_context(query, top_k, boost_active_files=...) at time t:
\* [result, invoked (whether retriever and builder ran), ctx].
GetContext(c, coll, act, t, q, top_k, boost) ==
    IF CacheHit(c, q, t)
    THEN [result |-> c.result[1], invoked |-> FALSE, ctx |-> c]
    ELSE LET formatted == BuildContext(Retrieve(coll, act, q, top_k, boost))
         IN  [result |-> formatted, invoked |-> TRUE,
              ctx |-> [time |-> t, query |-> q, result |-> Some(formatted)]]

\* The mutant of ClearIndex that keeps the active files.
ClearIndexKeepActive(coll, cch, act) ==
    [collection |-> ClearCollection(coll), cache |-> ClearCache(cch),
     active_files |-> act]

\* clear_index(): the store, the embedding cache and the active files.
ClearIndex(coll, cch, act) ==
    [collection |-> ClearCollection(coll), cache |-> ClearCache(cch),
     active_files |-> {}]

\* The facade as constructed, with no file on disk.
FreshCtx == [time |-> 0, query |-> "", result |-> None]

RagIdle ==
    /\ files = [p \in Paths |-> NoFile]
    /\ cache = {}
    /\ active_files = {}
    /\ now = 0
    /\ ctx = FreshCtx

\* ------------------------------------------- diff history, chat sessions

\* DiffManager.__init__: no history, _current_index = -1.
NoHistory == [history |-> <<>>, current_index |-> -1]

\* ChatManager.__init__: no session, no active session; sessions holds the
\* keys of the dict in their order, stored the session files on disk.
NoSessions == [sessions |-> <<>>, active_session_id |-> None, stored |-> {}]

AppIdle == diff_manager = NoHistory /\ chat_manager = NoSessions

\* ------------------------------------------------------------ the editor

\* The most manual index workers and chat workers alive at a time.
MaxIndexWorkers == 2

MaxChatWorkers == 2

IndexWorkers == 1..MaxIndexWorkers

ChatWorkers == 1..MaxChatWorkers

\* TextEditor.__init__: the flag down, the lock free, no worker thread.
EditorIdle ==
    [indexing_in_progress |-> FALSE,
     indexing_lock |-> "free",
     gui |-> "idle",
     index |-> [w \in IndexWorkers |-> "none"],
     chat |-> [c \in ChatWorkers |-> "none"]]

\* The mutant of AlreadyIndexing that never sees the flag.
AlreadyIndexingNever(e) == FALSE

\* if self._indexing_in_progress, in _index_current_file_manually
AlreadyIndexing(e) == e.indexing_in_progress

\* The threads inside a call of the RAG instance.
InIndexFile(e) == {w \in IndexWorkers : e.index[w] = "index_file"}

InGetContext(e) == {c \in ChatWorkers : e.chat[c] = "get_context"}

InClearIndex(e) == e.gui = "clear_index"

\* The manual index worker threads that have started and not ended.
LiveIndexWorkers(e) == {w \in IndexWorkers : e.index[w] # "none"}

\* ------------------------------------------------------ the facade's calls

InitRag ==
    /\ editor = EditorIdle
    /\ AppIdle
    /\ RagIdle
    /\ collection = {}
    /\ last = [op |-> "init"]
    /\ text = <<>> /\ chunk_size = 2 /\ overlap = 0
    /\ ck = [ChunkInit EXCEPT !.pc = "done"]

\* The editor or the user writes, replaces or deletes a file.
WriteFile ==
    \E p \in Paths, c \in FileTexts \cup {NoFile} :
        /\ files[p] # c
        /\ files' = [files EXCEPT ![p] = c]
        /\ last' = [op |-> "write_file", path |-> p]
        /\ UNCHANGED <<chunkVars, appVars, editor, collection, cache, active_files, now, ctx>>

\* A second passes.
Tick ==
    /\ now < MaxTime
    /\ now' = now + 1
    /\ UNCHANGED <<chunkVars, appVars, editor, collection, last, files, cache, active_files, ctx>>

\* The call's effect on the facade, res being what IndexFile gives.
IndexFileDone(p, force_reindex, fail, res) ==
    /\ collection' = res.collection
    /\ cache' = res.cache
    /\ last' = [op |-> "index_file", path |-> p, force |-> force_reindex,
                fail |-> fail,
                ret |-> res.ret, count |-> Count(collection),
                had |-> Cardinality(IdsOfFile(collection, p)),
                cached |-> CachedCount(cache, FileHash(p))]
    /\ UNCHANGED <<chunkVars, appVars, editor, files, active_files, now, ctx>>

\* rag.index_file(p, force_reindex), in which fail goes wrong.
IndexFileCall(p, force_reindex, fail) ==
    IndexFileDone(p, force_reindex, fail,
                  IndexFile(collection, cache, files, chunk_size, overlap, p,
                            force_reindex, fail))

\* rag.index_file(p, force_reindex), the embedding model and the backend
\* working.
RagIndexFile ==
    \E p \in Paths, force_reindex \in BOOLEAN : IndexFileCall(p, force_reindex, "none")

\* rag.index_file(p, force_reindex) while the embedding model or the backend
\* is failing.
RagIndexFileFails ==
    \E p \in Paths, force_reindex \in BOOLEAN, fail \in Failures \ {"none"} :
        IndexFileCall(p, force_reindex, fail)

\* The call's effect on the facade, res being what IndexAll gives.
IndexDirectoryDone(order, fails, res) ==
    /\ collection' = res.collection
    /\ cache' = res.cache
    /\ last' = [op |-> "index_directory", ret |-> res.indexed_count,
                order |-> order, fails |-> fails, rets |-> res.rets,
                count |-> Count(collection)]
    /\ UNCHANGED <<chunkVars, appVars, editor, files, active_files, now, ctx>>

\* rag.index_directory(the directory of the files), the files met in order.
IndexDirectoryCall(order, fails) ==
    IndexDirectoryDone(order, fails,
                       IndexAll(collection, cache, files, chunk_size, overlap,
                                order, fails))

\* rag.index_directory(...), the embedding model and the backend working.
RagIndexDirectory ==
    \E order \in DirectoryOrders(files) :
        IndexDirectoryCall(order, [i \in 1..Len(order) |-> "none"])

\* rag.index_directory(...) while the embedding model or the backend fails
\* for some of the files.
RagIndexDirectoryFails ==
    \E order \in DirectoryOrders(files) :
        \E fails \in [1..Len(order) -> Failures] :
            /\ \E i \in 1..Len(order) : fails[i] # "none"
            /\ IndexDirectoryCall(order, fails)

\* rag.remove_file(p)
RagRemoveFile ==
    \E p \in Paths :
        /\ collection' = DeleteByFile(collection, p)
        /\ active_files' = active_files \ {p}
        /\ last' = [op |-> "remove_file", path |-> p, count |-> Count(collection),
                    was_active |-> p \in active_files]
        /\ UNCHANGED <<chunkVars, appVars, editor, files, cache, now, ctx>>

\* rag.mark_active_file(p)
RagMarkActive ==
    \E p \in Paths :
        /\ active_files' = active_files \cup {p}
        /\ last' = [op |-> "mark_active_file", path |-> p]
        /\ UNCHANGED <<chunkVars, appVars, editor, collection, files, cache, now, ctx>>

\* rag.unmark_active_file(p)
RagUnmarkActive ==
    \E p \in Paths :
        /\ active_files' = active_files \ {p}
        /\ last' = [op |-> "unmark_active_file", path |-> p]
        /\ UNCHANGED <<chunkVars, appVars, editor, collection, files, cache, now, ctx>>

\* rag.get_context(q, top_k, boost_active_files=boost)
RagGetContext ==
    \E q \in Queries, top_k \in TopKs, boost \in BOOLEAN :
        LET res == GetContext(ctx, collection, active_files, now, q, top_k, boost)
        IN  /\ ctx' = res.ctx
            /\ last' = [op |-> "get_context", query |-> q, time |-> now,
                        top_k |-> top_k,
                        result |-> res.result, invoked |-> res.invoked]
            /\ UNCHANGED <<chunkVars, appVars, editor, collection, files, cache, active_files, now>>

\* rag.clear_index()
RagClearIndex ==
    LET res == ClearIndex(collection, cache, active_files)
    IN  /\ collection' = res.collection
        /\ cache' = res.cache
        /\ active_files' = res.active_files
        /\ last' = [op |-> "clear_index", count |-> Count(collection)]
        /\ UNCHANGED <<chunkVars, appVars, editor, files, now, ctx>>

\* Indexing: files come, change and go, and are indexed, removed, cleared.
NextIndex ==
    \/ WriteFile
    \/ RagIndexFile
    \/ RagIndexDirectory
    \/ RagRemoveFile
    \/ RagClearIndex

SpecIndex == InitRag /\ [][NextIndex]_vars

\* Two files that stay as they are, one holding the text "ab", one "cd".
InitContext ==
    /\ editor = EditorIdle
    /\ AppIdle
    /\ files = [p \in Paths |-> IF p = "/A" THEN <<"a", "b">> ELSE <<"c", "d">>]
    /\ cache = {}
    /\ active_files = {}
    /\ now = 0
    /\ ctx = FreshCtx
    /\ collection = {}
    /\ last = [op |-> "init"]
    /\ text = <<>> /\ chunk_size = 2 /\ overlap = 0
    /\ ck = [ChunkInit EXCEPT !.pc = "done"]

\* A facade on a directory that does not change: each path holds a text, an
\* empty file, or nothing that parse_file can read.
InitFail ==
    /\ editor = EditorIdle
    /\ AppIdle
    /\ files \in [Paths -> FileTexts \cup {<<>>, NoFile}]
    /\ cache = {}
    /\ active_files = {}
    /\ now = 0
    /\ ctx = FreshCtx
    /\ collection = {}
    /\ last = [op |-> "init"]
    /\ text = <<>> /\ chunk_size = 2 /\ overlap = 0
    /\ ck = [ChunkInit EXCEPT !.pc = "done"]

\* A file is deleted, or becomes unreadable: parse_file gives None for it.
UnlinkFile ==
    \E p \in Paths :
        /\ files[p] # NoFile
        /\ files' = [files EXCEPT ![p] = NoFile]
        /\ last' = [op |-> "unlink", path |-> p]
        /\ UNCHANGED <<chunkVars, appVars, editor, collection, cache, active_files, now, ctx>>

\* Indexing with an embedding model and a backend that can fail.
NextFail ==
    \/ UnlinkFile
    \/ RagIndexFile
    \/ RagIndexFileFails
    \/ RagIndexDirectory
    \/ RagIndexDirectoryFails
    \/ RagRemoveFile

SpecFail == InitFail /\ [][NextFail]_vars

\* Querying: the files are indexed, marked, queried and cleared as time passes.
NextContext ==
    \/ Tick
    \/ RagIndexFile
    \/ RagRemoveFile
    \/ RagMarkActive
    \/ RagUnmarkActive
    \/ RagGetContext
    \/ RagClearIndex

SpecContext == InitContext /\ [][NextContext]_vars

\* --------------------------------------- the builder, called directly

\* Most results handed to build in one call.
MaxResults == 3

\* Largest token budget handed to build.
MaxBudget == 4

\* Texts of 0, 1 and 2 estimated tokens.
ResultTexts == {<<>>, <<"a">>, <<"a", "b", "c", "d", "e">>}

\* The ranked result lists: the i-th result has rank i.
ResultLists ==
    UNION {{[i \in 1..n |-> [chunk_id |-> i, text |-> ts[i]]] :
               ts \in [1..n -> ResultTexts]} : n \in 0..MaxResults}

\* builder.build(rs, max_tokens)
BuilderBuild ==
    \E rs \in ResultLists, max_tokens \in 0..MaxBudget :
        /\ last' = [op |-> "build", results |-> rs, max_tokens |-> max_tokens,
                    out |-> Build(rs, max_tokens)]
        /\ UNCHANGED <<chunkVars, appVars, editor, collection, ragVars>>

SpecBuild == InitRag /\ [][BuilderBuild]_vars

\* ------------------------------------- the retriever, called directly

\* The record that index_file stores for chunk i of the file p, of text t.
StoredRecord(p, i, t) ==
    [id |-> <<"md5", p, i>>, document |-> t, embedding |-> Embed(t),
     metadata |-> [file_path |-> p, chunk_index |-> i,
                   start_char |-> 2 * i, end_char |-> 2 * i + 2]]

\* The texts of the stored chunks.
StoredTexts == {<<"a", "b">>, <<"c", "d">>}

\* What indexing can leave in the store: no, one or two chunks of /A and no
\* or one chunk of /B.
StoredSets ==
    LET ofA == {{}} \cup {{StoredRecord("/A", 0, t)} : t \in StoredTexts}
                    \cup {{StoredRecord("/A", 0, t), StoredRecord("/A", 1, u)} :
                              t \in StoredTexts, u \in StoredTexts}
        ofB == {{}} \cup {{StoredRecord("/B", 0, t)} : t \in StoredTexts}
    IN  {a \cup b : a \in ofA, b \in ofB}

\* A facade with files indexed and files marked active.
InitRetrieve ==
    /\ editor = EditorIdle
    /\ AppIdle
    /\ collection \in StoredSets
    /\ active_files \in SUBSET Paths
    /\ files = [p \in Paths |-> NoFile]
    /\ cache = {}
    /\ now = 0
    /\ ctx = FreshCtx
    /\ last = [op |-> "init"]
    /\ text = <<>> /\ chunk_size = 2 /\ overlap = 0
    /\ ck = [ChunkInit EXCEPT !.pc = "done"]

\* retriever.retrieve(q, top_k, boost_active_files=True), and the chunks
\* that get_context makes of its results.
RetrieverRetrieve ==
    \E q \in Queries, top_k \in TopKs :
        \E found \in SearchResults(collection, q, 2 * top_k) :
            /\ last' = [op |-> "retrieve", query |-> q, top_k |-> top_k,
                        found |-> found,
                        out |-> RetrieveFound(found, active_files, top_k),
                        chunks |-> BuildContext(RetrieveFound(found, active_files,
                                                              top_k)).chunks]
            /\ UNCHANGED <<chunkVars, appVars, editor, collection, ragVars>>

SpecRetrieve == InitRetrieve /\ [][RetrieverRetrieve]_vars

\* ----------------------------------------- the store, called directly

IdPool == <<"id1", "id2", "id3">>

\* The file path of the i-th entry of a batch whose lengths differ.
PathAt(i) == IF i % 2 = 1 THEN "/A" ELSE "/B"

DocOf(id) == <<"doc", id>>

VecOf(id) == <<"vec", id>>

MetaOf(p) == [file_path |-> p, chunk_index |-> 0]

\* Well-formed batches: distinct ids of every length up to MaxBatch, one text
\* and one vector per id, every file path per entry.
EqualBatches ==
    UNION {{<<[i \in 1..n |-> IdPool[f[i]]],
              [i \in 1..n |-> DocOf(IdPool[f[i]])],
              [i \in 1..n |-> VecOf(IdPool[f[i]])],
              [i \in 1..n |-> MetaOf(g[i])]>> :
                f \in {h \in [1..n -> 1..Len(IdPool)] :
                          \A i, j \in 1..n : i < j => h[i] < h[j]},
                g \in [1..n -> Paths]} :
           n \in 0..MaxBatch}

\* Batches of every combination of four lengths up to MaxBatch.
AnyLengthBatches ==
    {<<[i \in 1..n1 |-> IdPool[i]],
       [i \in 1..n2 |-> DocOf(IdPool[i])],
       [i \in 1..n3 |-> VecOf(IdPool[i])],
       [i \in 1..n4 |-> MetaOf(PathAt(i))]>> :
        n1 \in 0..MaxBatch, n2 \in 0..MaxBatch, n3 \in 0..MaxBatch, n4 \in 0..MaxBatch}

\* The largest top_k a search of the store asks for.
MaxTopK == 3

\* The where filters of a search: none, or {"file_path": p}.
Wheres == {None} \cup {Some(p) : p \in Paths}

\* Where a call of the backend can fail in search.
SearchFailures == {"none", "count", "query"}

NoResults == [ids |-> <<>>, documents |-> <<>>, metadatas |-> <<>>,
              similarities |-> <<>>, raised |-> FALSE]

\* The records a where filter lets through.
Matching(coll, where) ==
    IF where = None THEN coll
    ELSE {r \in coll : r.metadata.file_path = where[1]}

\* 1 - distance of a stored vector and the query's vector, as a whole number.
Nearness(qv, v) == IF qv = v THEN 2 ELSE 1

\* The rankings collection.query can give for n_results of the matching
\* records: the nearest first, records as near as each other in any order.
QueryRankings(S, qv, n_results) ==
    LET n == Min(n_results, Cardinality(S))
    IN  {f \in [1..n -> S] :
            /\ \A i, j \in 1..n :
                  i < j => f[i] # f[j] /\ Nearness(qv, f[i].embedding)
                                             >= Nearness(qv, f[j].embedding)
            /\ \A x \in S :
                  (\A i \in 1..n : f[i] # x)
                      => \A i \in 1..n : Nearness(qv, x.embedding)
                                             <= Nearness(qv, f[i].embedding)}

\* The four lists search takes out of one ranking.
Extracted(qv, f) ==
    [ids |-> [i \in 1..Len(f) |-> f[i].id],
     documents |-> [i \in 1..Len(f) |-> f[i].document],
     metadatas |-> [i \in 1..Len(f) |-> f[i].metadata],
     similarities |-> [i \in 1..Len(f) |-> Nearness(qv, f[i].embedding)],
     raised |-> FALSE]

Raising == [NoResults EXCEPT !.raised = TRUE]

\* What the body of search's try block can do: count(), the test for an
\* empty collection, query(n_results=min(top_k, count)), which raises for
\* n_results < 1, and the extraction.
SearchTry(coll, qv, top_k, where, fail) ==
    IF fail = "count" THEN {Raising}
    ELSE IF Count(coll) = 0 THEN {NoResults}
    ELSE IF fail = "query" \/ Min(top_k, Count(coll)) < 1 THEN {Raising}
    ELSE {Extracted(qv, f) :
            f \in QueryRankings(Matching(coll, where), qv, Min(top_k, Count(coll)))}

\* The mutant of SearchExcept that lets the exception through.
SearchNoExcept(outcome) == outcome

\* search's except Exception: four empty lists.
SearchExcept(outcome) == IF outcome.raised THEN NoResults ELSE outcome

\* VectorStore.search(query_embedding, top_k, where): its possible results.
VectorSearch(coll, qv, top_k, where, fail) ==
    {SearchExcept(outcome) : outcome \in SearchTry(coll, qv, top_k, where, fail)}

InitStore ==
    /\ editor = EditorIdle
    /\ AppIdle
    /\ collection = {}
    /\ last = [op |-> "init"]
    /\ text = <<>> /\ chunk_size = 2 /\ overlap = 0
    /\ ck = [ChunkInit EXCEPT !.pc = "done"]
    /\ RagIdle

\* store.add_documents(ids, texts, embeddings, metadatas)
StoreAdd ==
    \E b \in EqualBatches \cup AnyLengthBatches :
        LET res == AddDocuments(collection, b[1], b[2], b[3], b[4])
        IN  /\ collection' = res.collection
            /\ last' = [op |-> "add_documents",
                        lens |-> <<Len(b[1]), Len(b[2]), Len(b[3]), Len(b[4])>>,
                        raised |-> res.raised, count |-> Count(collection)]
            /\ UNCHANGED <<chunkVars, appVars, editor, ragVars>>

\* store.delete_by_file(p)
StoreDeleteByFile ==
    \E p \in Paths :
        /\ collection' = DeleteByFile(collection, p)
        /\ last' = [op |-> "delete_by_file", path |-> p, raised |-> "none",
                    count |-> Count(collection)]
        /\ UNCHANGED <<chunkVars, appVars, editor, ragVars>>

\* store.clear_collection()
StoreClear ==
    /\ collection' = ClearCollection(collection)
    /\ last' = [op |-> "clear_collection", raised |-> "none",
                count |-> Count(collection)]
    /\ UNCHANGED <<chunkVars, appVars, editor, ragVars>>

\* store.search(query_embedding, top_k, where)
StoreSearch ==
    \E i \in 1..Len(IdPool), top_k \in 0..MaxTopK, where \in Wheres,
       fail \in SearchFailures :
        \E res \in VectorSearch(collection, VecOf(IdPool[i]), top_k, where, fail) :
            /\ last' = [op |-> "search", top_k |-> top_k, where |-> where,
                        fail |-> fail, count |-> Count(collection),
                        raised |-> res.raised, ids |-> res.ids,
                        lens |-> <<Len(res.ids), Len(res.documents),
                                   Len(res.metadatas), Len(res.similarities)>>]
            /\ UNCHANGED <<chunkVars, appVars, editor, collection, ragVars>>

NextStore == StoreAdd \/ StoreDeleteByFile \/ StoreClear \/ StoreSearch

SpecStore == InitStore /\ [][NextStore]_vars

\* ---------------------------------------------- chunk_text, step by step

RECURSIVE SeqsUpTo(_)
\* All texts over Alphabet of length at most n.
SeqsUpTo(n) ==
    IF n = 0 THEN {<<>>}
    ELSE LET shorter == SeqsUpTo(n - 1)
         IN  shorter \cup {Append(t, ch) : t \in {u \in shorter : Len(u) = n - 1},
                                           ch \in Alphabet}

\* "Line 1\nLine 2\nLine 3\n", the 21 characters of the end-to-end scenario.
LineText ==
    <<"L", "i", "n", "e", SP, "1", NL, "L", "i", "n", "e", SP, "2", NL,
      "L", "i", "n", "e", SP, "3", NL>>

\* A text without any separator.
LongText == [i \in 1..LongTextLen |-> "a"]

\* (chunk_size, overlap) pairs, chunk_size > overlap >= 0; <<100, 10>> is the
\* configuration of the end-to-end scenario; with <<4, 0>> and <<6, 1>> a
\* break point can end a chunk before the edge of its window.
ChunkConfigs ==
    {<<2, 0>>, <<2, 1>>, <<3, 1>>, <<4, 1>>, <<3, 2>>, <<4, 0>>, <<6, 1>>, <<100, 10>>}

ChunkInputs == SeqsUpTo(MaxTextLen) \cup {LineText, LongText}

InitChunk ==
    /\ editor = EditorIdle
    /\ AppIdle
    /\ text \in ChunkInputs
    /\ \E cfg \in ChunkConfigs : chunk_size = cfg[1] /\ overlap = cfg[2]
    /\ ck = [ChunkInit EXCEPT !.pc = "start"]
    /\ collection = {}
    /\ last = [op |-> "init"]
    /\ RagIdle

\* if not text or not text.strip(): return []
ChunkBegin ==
    /\ ck.pc = "start"
    /\ ck' = IF Strip(text) = <<>> THEN [ChunkInit EXCEPT !.pc = "done"] ELSE ChunkInit
    /\ UNCHANGED <<text, chunk_size, overlap, collection, last, editor, appVars>>
    /\ UNCHANGED ragVars

\* while start < len(text): one pass
ChunkPass ==
    /\ ck.pc = "loop"
    /\ ck.start < Len(text)
    /\ ck' = ChunkIter(text, chunk_size, overlap, ck)
    /\ UNCHANGED <<text, chunk_size, overlap, collection, last, editor, appVars>>
    /\ UNCHANGED ragVars

\* the loop test fails: return chunks
ChunkExit ==
    /\ ck.pc = "loop"
    /\ ~(ck.start < Len(text))
    /\ ck' = [ck EXCEPT !.pc = "done"]
    /\ UNCHANGED <<text, chunk_size, overlap, collection, last, editor, appVars>>
    /\ UNCHANGED ragVars

NextChunk == ChunkBegin \/ ChunkPass \/ ChunkExit

SpecChunk == InitChunk /\ [][NextChunk]_vars

\* ------------------------------------------------- the editor's threads

\* The file open in the editor.
current_file == "/A"

\* The editor with its RAG instance, the open file on disk.
InitEditor ==
    /\ editor = EditorIdle
    /\ AppIdle
    /\ files = [p \in Paths |-> IF p = current_file THEN <<"a", "b", "c", "d">>
                                 ELSE NoFile]
    /\ cache = {}
    /\ active_files = {}
    /\ now = 0
    /\ ctx = FreshCtx
    /\ collection = {}
    /\ last = [op |-> "init"]
    /\ text = <<>> /\ chunk_size = 2 /\ overlap = 0
    /\ ck = [ChunkInit EXCEPT !.pc = "done"]

\* A step of a thread of the editor that leaves the RAG instance alone.
EditorStep(op, e) ==
    /\ editor' = e
    /\ last' = [op |-> op, before |-> editor]
    /\ UNCHANGED <<chunkVars, appVars, collection, ragVars>>

\* _index_current_file_manually: with self._indexing_lock
ManualIndexLock ==
    /\ editor.gui = "idle"
    /\ editor.indexing_lock = "free"
    /\ EditorStep("manual_index", [editor EXCEPT !.indexing_lock = "gui",
                                                 !.gui = "test"])

\* the flag is up: the message, return, the lock released
ManualIndexRefused ==
    /\ editor.gui = "test"
    /\ AlreadyIndexing(editor)
    /\ EditorStep("refused", [editor EXCEPT !.indexing_lock = "free",
                                            !.gui = "idle"])

\* the flag is down: self._indexing_in_progress = True, the lock released
ManualIndexClaim ==
    /\ editor.gui = "test"
    /\ ~AlreadyIndexing(editor)
    /\ EditorStep("claimed", [editor EXCEPT !.indexing_in_progress = TRUE,
                                            !.indexing_lock = "free",
                                            !.gui = "size"])

\* _should_index_file says no: the flag goes down under the lock, return
ManualIndexTooLarge ==
    /\ editor.gui = "size"
    /\ editor.indexing_lock = "free"
    /\ EditorStep("too_large", [editor EXCEPT !.indexing_in_progress = FALSE,
                                              !.gui = "idle"])

\* os.path.getsize(file_to_index) raises: the handler ends, the flag left up
ManualIndexRaises ==
    /\ editor.gui = "size"
    /\ EditorStep("raised", [editor EXCEPT !.gui = "idle"])

\* threading.Thread(target=index_worker).start()
ManualIndexStart ==
    \E w \in IndexWorkers :
        /\ editor.gui = "size"
        /\ editor.index[w] = "none"
        /\ EditorStep("started", [editor EXCEPT !.index[w] = "started",
                                                !.gui = "idle"])

\* index_worker: the call of index_file(file_to_index, force_reindex=True)
WorkerCall ==
    \E w \in IndexWorkers :
        /\ editor.index[w] = "started"
        /\ EditorStep("index_file_called", [editor EXCEPT !.index[w] = "index_file"])

\* The facade after the worker's index_file has returned res.ret.
WorkerReturned(w, res) ==
    /\ collection' = res.collection
    /\ cache' = res.cache
    /\ editor' = [editor EXCEPT !.index[w] = IF res.ret THEN "success" ELSE "finally"]
    /\ last' = [op |-> "index_file_returned", before |-> editor]
    /\ UNCHANGED <<chunkVars, appVars, files, active_files, now, ctx>>

\* index_worker: index_file returns
WorkerReturn ==
    \E w \in IndexWorkers :
        /\ editor.index[w] = "index_file"
        /\ WorkerReturned(w, IndexFile(collection, cache, files, chunk_size, overlap,
                                       current_file, TRUE, "none"))

\* index_worker: if success, mark_active_file(file_to_index), get_stats()
WorkerMark ==
    \E w \in IndexWorkers :
        /\ editor.index[w] = "success"
        /\ active_files' = active_files \cup {current_file}
        /\ editor' = [editor EXCEPT !.index[w] = "finally"]
        /\ last' = [op |-> "marked", before |-> editor]
        /\ UNCHANGED <<chunkVars, appVars, collection, files, cache, now, ctx>>

\* index_worker: finally, the flag goes down under the lock; the thread ends
WorkerFinally ==
    \E w \in IndexWorkers :
        /\ editor.index[w] = "finally"
        /\ editor.indexing_lock = "free"
        /\ EditorStep("worker_ended", [editor EXCEPT !.indexing_in_progress = FALSE,
                                                     !.index[w] = "none"])

\* _handle_normal_chat: threading.Thread(target=worker).start()
ChatSend ==
    \E c \in ChatWorkers :
        /\ editor.gui = "idle"
        /\ editor.chat[c] = "none"
        /\ EditorStep("chat_started", [editor EXCEPT !.chat[c] = "started"])

\* worker: get_messages_for_llm_with_context calls get_context(query, top_k=3,
\* boost_active_files=True)
ChatCall ==
    \E c \in ChatWorkers :
        /\ editor.chat[c] = "started"
        /\ EditorStep("get_context_called", [editor EXCEPT !.chat[c] = "get_context"])

\* The facade after the chat worker's get_context has returned.
ChatReturned(c, res) ==
    /\ ctx' = res.ctx
    /\ editor' = [editor EXCEPT !.chat[c] = "chat"]
    /\ last' = [op |-> "get_context_returned", before |-> editor]
    /\ UNCHANGED <<chunkVars, appVars, collection, files, cache, active_files, now>>

\* worker: get_context returns
ChatReturn ==
    \E c \in ChatWorkers, q \in Queries :
        /\ editor.chat[c] = "get_context"
        /\ ChatReturned(c, GetContext(ctx, collection, active_files, now, q, 3, TRUE))

\* worker: llm_client.chat(msgs) returns, the reply is emitted; the thread ends
ChatReply ==
    \E c \in ChatWorkers :
        /\ editor.chat[c] = "chat"
        /\ EditorStep("chat_ended", [editor EXCEPT !.chat[c] = "none"])

\* _clear_rag_index: the question is asked
ClearAsk ==
    /\ editor.gui = "idle"
    /\ EditorStep("clear_asked", [editor EXCEPT !.gui = "confirm"])

\* the answer is No
ClearDeclined ==
    /\ editor.gui = "confirm"
    /\ EditorStep("clear_declined", [editor EXCEPT !.gui = "idle"])

\* the answer is Yes: the call of clear_index()
ClearCall ==
    /\ editor.gui = "confirm"
    /\ EditorStep("clear_index_called", [editor EXCEPT !.gui = "clear_index"])

\* The facade after the GUI thread's clear_index has returned.
ClearReturned(res) ==
    /\ collection' = res.collection
    /\ cache' = res.cache
    /\ active_files' = res.active_files
    /\ editor' = [editor EXCEPT !.gui = "idle"]
    /\ last' = [op |-> "clear_index_returned", before |-> editor]
    /\ UNCHANGED <<chunkVars, appVars, files, now, ctx>>

\* clear_index returns
ClearReturn ==
    /\ editor.gui = "clear_index"
    /\ ClearReturned(ClearIndex(collection, cache, active_files))

NextEditor ==
    \/ ManualIndexLock
    \/ ManualIndexRefused
    \/ ManualIndexClaim
    \/ ManualIndexTooLarge
    \/ ManualIndexRaises
    \/ ManualIndexStart
    \/ WorkerCall
    \/ WorkerReturn
    \/ WorkerMark
    \/ WorkerFinally
    \/ ChatSend
    \/ ChatCall
    \/ ChatReturn
    \/ ChatReply
    \/ ClearAsk
    \/ ClearDeclined
    \/ ClearCall
    \/ ClearReturn

SpecEditor == InitEditor /\ [][NextEditor]_vars

\* What _index_current_file_manually does once it holds the lock.
ManualIndexGoesOn ==
    \/ ManualIndexRefused
    \/ ManualIndexClaim
    \/ ManualIndexTooLarge
    \/ ManualIndexRaises
    \/ ManualIndexStart

\* What index_worker does once it has been started.
WorkerGoesOn == WorkerCall \/ WorkerReturn \/ WorkerMark

\* The editor with an open file that index_file can index, or one that
\* holds only whitespace, for which index_file returns False.
InitManualIndex ==
    /\ editor = EditorIdle
    /\ AppIdle
    /\ \E t \in {<<"a", "b", "c", "d">>, <<SP>>} :
          files = [p \in Paths |-> IF p = current_file THEN t ELSE NoFile]
    /\ cache = {}
    /\ active_files = {}
    /\ now = 0
    /\ ctx = FreshCtx
    /\ collection = {}
    /\ last = [op |-> "init"]
    /\ text = <<>> /\ chunk_size = 2 /\ overlap = 0
    /\ ck = [ChunkInit EXCEPT !.pc = "done"]

\* The manual index triggers and their workers, with threads that go on: a
\* handler that has begun ends, a worker that was started makes its calls,
\* its call of index_file returns, and a worker that waits for the lock gets
\* it.
SpecManualIndex ==
    /\ InitManualIndex
    /\ [][ManualIndexLock \/ ManualIndexGoesOn \/ WorkerGoesOn \/ WorkerFinally]_vars
    /\ WF_vars(ManualIndexGoesOn)
    /\ WF_vars(WorkerCall \/ WorkerMark)
    /\ \A w \in IndexWorkers : []<>(editor.index[w] # "index_file")
    /\ SF_vars(WorkerFinally)

\* ----------------------------------------------------- the diff history

\* The longest history.
MaxHistory == 3

\* The text states of the model.
DiffTexts == {"t0", "t1"}

\* can_undo(): self._current_index > 0
CanUndo(d) == d.current_index > 0

\* can_redo(): self._current_index < len(self._history) - 1
CanRedo(d) == d.current_index < Len(d.history) - 1

\* A call of the DiffManager: what it leaves and what is kept of it.
DiffCall(call, d) ==
    /\ diff_manager' = d
    /\ last' = [call EXCEPT !.before = diff_manager,
                            !.prev = [op |-> last.op,
                                      pair |-> IF last.op = "add_to_history"
                                               THEN <<last.original, last.modified>>
                                               ELSE <<>>]]
    /\ UNCHANGED <<chunkVars, chat_manager, editor, collection, ragVars>>

NoCall == [op |-> "init", original |-> "", modified |-> "", ret |-> None,
           before |-> NoHistory, prev |-> [op |-> "init", pair |-> <<>>]]

\* add_to_history(original, modified)
DiffAdd ==
    \E original \in DiffTexts, modified \in DiffTexts :
        /\ diff_manager.current_index + 1 < MaxHistory
        /\ DiffCall([NoCall EXCEPT !.op = "add_to_history", !.original = original,
                                   !.modified = modified],
                    [history |-> Append(SubSeq(diff_manager.history, 1,
                                               diff_manager.current_index + 1),
                                        <<original, modified>>),
                     current_index |-> diff_manager.current_index + 1])

\* undo()
DiffUndo ==
    IF ~CanUndo(diff_manager)
    THEN DiffCall([NoCall EXCEPT !.op = "undo"], diff_manager)
    ELSE DiffCall([NoCall EXCEPT !.op = "undo",
                     !.ret = Some(diff_manager.history[diff_manager.current_index][2])],
                  [diff_manager EXCEPT !.current_index = @ - 1])

\* redo()
DiffRedo ==
    IF ~CanRedo(diff_manager)
    THEN DiffCall([NoCall EXCEPT !.op = "redo"], diff_manager)
    ELSE DiffCall([NoCall EXCEPT !.op = "redo",
                     !.ret = Some(diff_manager.history[diff_manager.current_index + 2][2])],
                  [diff_manager EXCEPT !.current_index = @ + 1])

\* clear_history()
DiffClear == DiffCall([NoCall EXCEPT !.op = "clear_history"], NoHistory)

InitDiff ==
    /\ AppIdle
    /\ editor = EditorIdle
    /\ RagIdle
    /\ collection = {}
    /\ last = NoCall
    /\ text = <<>> /\ chunk_size = 2 /\ overlap = 0
    /\ ck = [ChunkInit EXCEPT !.pc = "done"]

NextDiff == DiffAdd \/ DiffUndo \/ DiffRedo \/ DiffClear

SpecDiff == InitDiff /\ [][NextDiff]_vars

\* --------------------------------------------------- the chat sessions

\* The session ids of the model, the empty string among them.
SessionIds == {"", "s1", "s2"}

Keys(c) == {c.sessions[i] : i \in 1..Len(c.sessions)}

\* del self.sessions[session_id]
Without(ss, id) == SelectSeq(ss, LAMBDA k : k # id)

\* create_session(session_id): [chat, raised]
CreateSession(c, id) ==
    IF id \in Keys(c) THEN [chat |-> c, raised |-> TRUE]
    ELSE [chat |-> [c EXCEPT !.sessions = Append(@, id),
                             !.active_session_id = IF @ = None THEN Some(id) ELSE @],
          raised |-> FALSE]

\* set_active_session(session_id): [chat, ret]
SetActiveSession(c, id) ==
    IF id \in Keys(c) THEN [chat |-> [c EXCEPT !.active_session_id = Some(id)],
                            ret |-> TRUE]
    ELSE [chat |-> c, ret |-> FALSE]

\* The mutant of DeleteSession that leaves active_session_id as it is.
DeleteSessionOnly(c, id) ==
    IF id \in Keys(c) THEN [chat |-> [c EXCEPT !.sessions = Without(@, id)],
                            ret |-> TRUE]
    ELSE [chat |-> c, ret |-> FALSE]

\* delete_session(session_id): [chat, ret]; the first key left becomes
\* active when the active session is deleted.
DeleteSession(c, id) ==
    IF id \in Keys(c)
    THEN [chat |-> [c EXCEPT !.sessions = Without(@, id),
                             !.active_session_id =
                                 IF @ # Some(id) THEN @
                                 ELSE IF Without(c.sessions, id) = <<>> THEN None
                                 ELSE Some(Head(Without(c.sessions, id)))],
          ret |-> TRUE]
    ELSE [chat |-> c, ret |-> FALSE]

\* load_session(session_id), readable telling whether the file parses:
\* [chat, ret]
LoadSession(c, id, readable) ==
    IF id \notin c.stored \/ ~readable THEN [chat |-> c, ret |-> FALSE]
    ELSE [chat |-> [c EXCEPT !.sessions = IF id \in Keys(c) THEN @ ELSE Append(@, id),
                             !.active_session_id = IF @ = None THEN Some(id) ELSE @],
          ret |-> TRUE]

\* A call of the ChatManager: what it leaves and what is kept of it.
ManagerCall(op, id, failed, c) ==
    /\ chat_manager' = c
    /\ last' = [op |-> op, id |-> id, failed |-> failed, before |-> chat_manager]
    /\ UNCHANGED <<chunkVars, diff_manager, editor, collection, ragVars>>

ManagerCreate ==
    \E id \in SessionIds :
        ManagerCall("create_session", id, CreateSession(chat_manager, id).raised,
                    CreateSession(chat_manager, id).chat)

ManagerSetActive ==
    \E id \in SessionIds :
        ManagerCall("set_active_session", id, ~SetActiveSession(chat_manager, id).ret,
                    SetActiveSession(chat_manager, id).chat)

ManagerDelete ==
    \E id \in SessionIds :
        ManagerCall("delete_session", id, ~DeleteSession(chat_manager, id).ret,
                    DeleteSession(chat_manager, id).chat)

ManagerLoad ==
    \E id \in SessionIds, readable \in BOOLEAN :
        ManagerCall("load_session", id, ~LoadSession(chat_manager, id, readable).ret,
                    LoadSession(chat_manager, id, readable).chat)

\* save_session(session_id): the file of a session that exists is written
ManagerSave ==
    \E id \in SessionIds :
        ManagerCall("save_session", id, id \notin Keys(chat_manager),
                    IF id \in Keys(chat_manager)
                    THEN [chat_manager EXCEPT !.stored = @ \cup {id}]
                    ELSE chat_manager)

InitSessions ==
    /\ AppIdle
    /\ editor = EditorIdle
    /\ RagIdle
    /\ collection = {}
    /\ last = [op |-> "init"]
    /\ text = <<>> /\ chunk_size = 2 /\ overlap = 0
    /\ ck = [ChunkInit EXCEPT !.pc = "done"]

NextSessions ==
    ManagerCreate \/ ManagerSetActive \/ ManagerDelete \/ ManagerLoad \/ ManagerSave

SpecSessions == InitSessions /\ [][NextSessions]_vars

\* -------------------------------------------------------- facade claims

\* The number of chunks index_file would hand to the store for path p.
ChunksToAdd(p) ==
    Min(Len(IndexerIndexFile(files, p, chunk_size, overlap)), max_chunks_per_file)

\* The claim C1: index_file(path) without force_reindex on a path already in
\* the store returns True and leaves the stored records (and so count()) as
\* they were, whatever the count and max_documents are.
C1_IdempotentIndex ==
    [][(last'.op = "index_file" /\ ~last'.force
            /\ last'.path \in AllFilePaths(collection))
          => (last'.ret = TRUE /\ collection' = collection)]_vars

\* The records stored for the path p.
RecordsOf(coll, p) == {r \in coll : r.metadata.file_path = p}

\* The chunk a record was made from: its id, text and metadata.
ChunkOf(r) == [chunk_id |-> r.id, text |-> r.document, metadata |-> r.metadata]

\* The elements of a sequence.
Elements(seq) == {seq[i] : i \in 1..Len(seq)}

\* All the chunks of the current content of the file p.
CurrentChunks(p) == IndexerIndexFile(files, p, chunk_size, overlap)

\* index_file(p, force_reindex) gets as far as its "Step 2": it is not
\* refused by a limit, p is not taken for indexed, and the file has chunks.
ReachesStep2(p, force_reindex) ==
    /\ force_reindex
          \/ (Count(collection) < max_documents /\ ~AlreadyIndexed(collection, p))
    /\ CurrentChunks(p) # <<>>
    /\ Count(collection) + ChunksToAdd(p) <= max_documents

\* The vectors stored in coll with the chunks, in the order of the chunks.
StoredVectors(coll, chunks) ==
    [i \in 1..Len(chunks) |->
        (CHOOSE r \in coll : r.id = chunks[i].chunk_id).embedding]

\* The claim C11 as stated: after index_file(path, force_reindex=True)
\* returned True the records of path are exactly the chunks of the file's
\* current content, one record a chunk, and the records of every other path
\* are as they were.
C11_ForceReindexAsStated ==
    [][(last'.op = "index_file" /\ last'.force /\ last'.ret)
          => /\ {ChunkOf(r) : r \in RecordsOf(collection', last'.path)}
                    = Elements(CurrentChunks(last'.path))
             /\ Cardinality(RecordsOf(collection', last'.path))
                    = Len(CurrentChunks(last'.path))
             /\ collection' \ RecordsOf(collection', last'.path)
                    = collection \ RecordsOf(collection, last'.path)]_vars

\* The claim C11 as amended: after index_file(path, force_reindex=True)
\* returned True the records of path are exactly the first
\* max_chunks_per_file chunks of the file's current content, one record a
\* chunk, and the records of every other path are as they were.
C11_ForceReindex ==
    [][(last'.op = "index_file" /\ last'.force /\ last'.ret)
          => /\ {ChunkOf(r) : r \in RecordsOf(collection', last'.path)}
                    = Elements(TruncateChunks(CurrentChunks(last'.path)))
             /\ Cardinality(RecordsOf(collection', last'.path))
                    = Len(TruncateChunks(CurrentChunks(last'.path)))
             /\ collection' \ RecordsOf(collection', last'.path)
                    = collection \ RecordsOf(collection, last'.path)]_vars

\* C11's case: a forced reindex of a path that had more records than its
\* current content has chunks.
C11_Witness ==
    /\ last.op = "index_file" /\ last.force /\ last.ret
    /\ last.had > Cardinality(RecordsOf(collection, last.path))

\* The claim C12: when index_file embeds and stores the chunks of a file,
\* the cached vectors of the file's key are what is stored if and only if
\* there are as many of them as chunks, and then the cache is left alone;
\* otherwise the vectors are generated from all the chunks' texts and
\* replace the cache entry. Either way one vector is stored for each chunk.
C12_CacheBySize ==
    [][(last'.op = "index_file" /\ last'.fail = "none"
            /\ ReachesStep2(last'.path, last'.force))
          => LET chunks == TruncateChunks(CurrentChunks(last'.path))
                 key == FileHash(last'.path)
                 cached == LoadCachedEmbeddings(cache, key)
             IN  /\ last'.ret
                 /\ \A i \in 1..Len(chunks) :
                        \E r \in collection' : r.id = chunks[i].chunk_id
                 /\ Cardinality(RecordsOf(collection', last'.path)) = Len(chunks)
                 /\ IF cached # None /\ Len(cached[1]) = Len(chunks)
                    THEN /\ StoredVectors(collection', chunks) = cached[1]
                         /\ cache' = cache
                    ELSE /\ StoredVectors(collection', chunks)
                              = BatchGenerate(ChunkTexts(chunks))
                         /\ LoadCachedEmbeddings(cache', key)
                              = Some(BatchGenerate(ChunkTexts(chunks)))]_vars

\* C12's case: a call that found a cache entry of another size than the
\* file's chunks and stored the file all the same, each record with the
\* vector of its text.
C12_Witness ==
    /\ last.op = "index_file" /\ last.ret /\ last.fail = "none"
    /\ last.cached > 0
    /\ last.cached # Cardinality(RecordsOf(collection, last.path))
    /\ RecordsOf(collection, last.path) # {}
    /\ \A r \in RecordsOf(collection, last.path) : r.embedding = Embed(r.document)

\* The file p gives no chunk: it is missing, unsupported, too large or
\* undecodable (parse_file gives None), or it is empty or blank.
Unusable(p) == CurrentChunks(p) = <<>>

\* A step of the call raises if the call gets to it, fail being what fails:
\* the backend's add, or batch_generate, which is called when the cache has
\* no entry of the right size.
WouldRaise(cch, p, fail) ==
    \/ fail = "store"
    \/ /\ fail = "embed"
       /\ CachedCount(cch, FileHash(p)) # ChunksToAdd(p)

\* Something goes wrong for the file p in a call of index_file that reads
\* it and is not stopped by a limit.
GoesWrong(coll, cch, p, fail) == Unusable(p) \/ WouldRaise(cch, p, fail)

\* What a call of index_directory is held to: index_file was called for
\* every file, the count returned is that of the calls that returned True,
\* and a file with chunks for which nothing failed and for which there is
\* room is in the store afterwards, whatever happened to the files before it.
DirectoryGoesOn ==
    (last'.op = "index_directory")
        => /\ Len(last'.rets) = Len(last'.order)
           /\ last'.ret = Cardinality({i \in 1..Len(last'.rets) : last'.rets[i]})
           /\ \A i \in 1..Len(last'.order) :
                 GoesWrong(collection, cache, last'.order[i], last'.fails[i])
                     => (AlreadyIndexed(collection, last'.order[i])
                            \/ ~last'.rets[i])
           /\ \A i \in 1..Len(last'.order) :
                 (/\ ~GoesWrong(collection, cache, last'.order[i], last'.fails[i])
                  /\ ~AlreadyIndexed(collection, last'.order[i])
                  /\ Count(collection')
                        + (IF AlreadyIndexed(collection', last'.order[i])
                           THEN 0 ELSE ChunksToAdd(last'.order[i]))
                        <= max_documents)
                     => (last'.rets[i] /\ AlreadyIndexed(collection', last'.order[i]))

\* The claim C14 as stated: index_file and index_directory return to their
\* caller; index_file returns False for a file that is missing, unsupported,
\* too large, undecodable or empty, or whose embedding or store step fails;
\* index_directory goes on and counts the calls that returned True.
C14_NoRaiseAsStated ==
    [][/\ (last'.op = "index_file")
            => /\ last'.ret \in BOOLEAN
               /\ Unusable(last'.path) => ~last'.ret
               /\ (/\ ReachesStep2(last'.path, last'.force)
                   /\ WouldRaise(cache, last'.path, last'.fail))
                     => ~last'.ret
       /\ DirectoryGoesOn]_vars

\* The claim C14 as amended: the same for every call that reads the file,
\* which is every call but one without force_reindex on a path that is
\* already in the store.
C14_NoRaise ==
    [][/\ (last'.op = "index_file")
            => /\ last'.ret \in BOOLEAN
               /\ (/\ last'.force \/ ~AlreadyIndexed(collection, last'.path)
                   /\ Unusable(last'.path))
                     => ~last'.ret
               /\ (/\ ReachesStep2(last'.path, last'.force)
                   /\ WouldRaise(cache, last'.path, last'.fail))
                     => ~last'.ret
       /\ DirectoryGoesOn]_vars

\* C14's case: index_directory, the first file's call failing in the store
\* step, the second file indexed and counted.
C14_Witness ==
    /\ last.op = "index_directory"
    /\ Len(last.order) = 2
    /\ last.fails[1] = "store" /\ ~last.rets[1]
    /\ last.rets[2] /\ last.ret = 1
    /\ AllFilePaths(collection) = {last.order[2]}

\* The claim C15: remove_file(p) leaves no record of p in the store and p
\* out of the active files, and the records and the active-file membership
\* of every other path as they were, also when p was neither indexed nor
\* active.
C15_RemoveFile ==
    [][(last'.op = "remove_file")
          => /\ RecordsOf(collection', last'.path) = {}
             /\ last'.path \notin active_files'
             /\ collection' = collection \ RecordsOf(collection, last'.path)
             /\ active_files' = active_files \ {last'.path}]_vars

\* C15's case: remove_file of an indexed, active path while the other path
\* is indexed and active too.
C15_Witness ==
    /\ last.op = "remove_file"
    /\ last.was_active
    /\ last.count > Count(collection)
    /\ collection # {}
    /\ active_files # {}

\* The text of the context: the texts of the chunks, one after the other.
RECURSIVE ContextText(_)
ContextText(chunks) ==
    IF chunks = <<>> THEN <<>> ELSE chunks[1].text \o ContextText(Tail(chunks))

IdsIn(rs) == [i \in 1..Len(rs) |-> rs[i].chunk_id]

\* The record r comes before the record o in the results of ids.
Before(ids, r, o) ==
    \E i, j \in 1..Len(ids) : i < j /\ ids[i] = r.id /\ ids[j] = o.id

\* The record r is in the results of ids.
Ranked(ids, r) == \E i \in 1..Len(ids) : ids[i] = r.id

\* Two stored chunks as near to the query as each other, the first of an
\* active file, the second not.
BoostPairs ==
    {pair \in collection \X collection :
        /\ Similarity(last.query, pair[1].embedding)
              = Similarity(last.query, pair[2].embedding)
        /\ pair[1].metadata.file_path \in active_files
        /\ pair[2].metadata.file_path \notin active_files}

C18_SearchTotal ==
    (last.op = "search")
        => /\ ~last.raised
           /\ \A i \in 1..4 : last.lens[i] = last.lens[1]
           /\ last.lens[1] <= Min(last.top_k, last.count)
           /\ (last.count = 0 \/ last.fail # "none") => last.lens[1] = 0

\* C18's cases: on a collection with fewer records than top_k, a search
\* that a failing backend query left empty, or one that the clamp to count()
\* cut short.
C18_Witness ==
    /\ last.op = "search"
    /\ last.count > 0
    /\ last.top_k > last.count
    /\ \/ last.fail = "query" /\ last.lens = <<0, 0, 0, 0>>
       \/ last.fail = "none" /\ last.where = None /\ last.lens[1] = last.count

\* The claim C19: at most one manual index worker is alive at any time, and so
\* at most one is inside index_file(path, force_reindex=True): the flag is up
\* as long as a worker lives, the GUI thread tests and sets the flag holding
\* the lock, and the trigger that finds the flag up starts no worker.
C19_OneIndexWorker ==
    /\ Cardinality(LiveIndexWorkers(editor)) <= 1
    /\ Cardinality(InIndexFile(editor)) <= 1
    /\ LiveIndexWorkers(editor) # {} => editor.indexing_in_progress
    /\ editor.gui = "test" => editor.indexing_lock = "gui"
    /\ last.op = "refused" => /\ last.before.indexing_in_progress
                              /\ editor.index = last.before.index

\* C19's case: a trigger has just been refused while the one worker is
\* inside index_file.
C19_Witness ==
    /\ last.op = "refused"
    /\ Cardinality(InIndexFile(editor)) = 1

\* The claim C28: whenever _indexing_in_progress is up it comes down again.
C28_FlagComesDown ==
    editor.indexing_in_progress ~> ~editor.indexing_in_progress

\* The claim C20: while the GUI thread is inside clear_index() no chat worker
\* is inside get_context and no manual index worker is inside index_file.
C20_NoClearRace ==
    InClearIndex(editor) => InGetContext(editor) = {} /\ InIndexFile(editor) = {}

\* The claim C25: a call index_file(path, force_reindex=True) that returns
\* False leaves the store as it was: the records of path are still there and
\* count() is what it was.
C25_FailedReindexKeeps ==
    [][(last'.op = "index_file" /\ last'.force /\ ~last'.ret)
          => /\ RecordsOf(collection', last'.path) = RecordsOf(collection, last'.path)
             /\ Count(collection') = Count(collection)]_vars

\* The claim C26: every record in the store carries the embedding of its own
\* text, whatever calls of index_file and changes of the files came before.
C26_VectorOfOwnText ==
    \A r \in collection : r.embedding = Embed(r.document)

\* The claim C29: undo() right after add_to_history(o, m) returns o, and
\* redo() right after that returns m; add_to_history keeps the entries up to
\* the current one, appends (o, m) and leaves nothing to redo; and
\* -1 <= _current_index < len(_history) always.
C29_UndoRedo ==
    [][/\ (last.op = "add_to_history" /\ last'.op = "undo")
            => last'.ret = Some(last.original)
       /\ (last.op = "undo" /\ last.prev.op = "add_to_history" /\ last'.op = "redo")
            => last'.ret = Some(last.prev.pair[2])
       /\ last'.op = "add_to_history"
            => /\ ~CanRedo(diff_manager')
               /\ diff_manager'.history
                    = Append(SubSeq(diff_manager.history, 1,
                                    diff_manager.current_index + 1),
                             <<last'.original, last'.modified>>)
       /\ -1 <= diff_manager'.current_index
       /\ diff_manager'.current_index < Len(diff_manager'.history)]_vars

\* The claim C30: active_session_id is None exactly when there is no
\* session, and else is the id of a session of the manager.
C30_ActiveExists ==
    /\ chat_manager.active_session_id = None <=> chat_manager.sessions = <<>>
    /\ chat_manager.active_session_id # None
          => chat_manager.active_session_id[1] \in Keys(chat_manager)

\* C30's case: the active session has just been deleted while another one
\* was there, which is active now.
C30_Witness ==
    /\ last.op = "delete_session" /\ ~last.failed
    /\ last.before.active_session_id = Some(last.id)
    /\ chat_manager.active_session_id # None
    /\ chat_manager.active_session_id[1] = Head(chat_manager.sessions)

\* The claim C5: after clear_index() the facade is as a new instance is: an
\* empty store, an empty embedding cache, no active file and no cached
\* get_context result.
C5_ClearIsFresh ==
    last.op = "clear_index"
        => /\ collection = {}
           /\ cache = {}
           /\ active_files = {}
           /\ ctx.result = None

\* The claim C6: count() never exceeds max_documents.
C6_CountWithinLimit == Count(collection) <= max_documents

\* C6's case: a forced reindex that filled the store to the ceiling.
C6_Witness ==
    /\ last.op = "index_file" /\ last.force /\ last.ret
    /\ last.count > 0
    /\ Count(collection) = max_documents

C8_CacheHitAsStated ==
    [][(last.op = "get_context" /\ last'.op = "get_context" /\ now' = now
            /\ last'.query = last.query
            /\ now - last.time < context_cooldown)
          => (last'.result = last.result /\ ~last'.invoked)]_vars

\* The claim C8 as amended: a get_context call with the query of the most
\* recent call that computed its result, less than the cooldown after that
\* computing call, returns the result computed then, invokes neither
\* retriever nor builder and leaves the stored result and its time alone.
C8_CacheHit ==
    [][(last'.op = "get_context" /\ now' = now
            /\ ctx.result # None
            /\ last'.query = ctx.query
            /\ now - ctx.time < context_cooldown)
          => (last'.result = ctx.result[1] /\ ~last'.invoked /\ ctx' = ctx)]_vars

\* The claim C13: the stored get_context result is keyed on the query
\* string alone. A call with the stored query, less than the cooldown after
\* the stored time, returns the stored result whatever its top_k and boost
\* flag are and runs neither retriever nor builder; any other call runs
\* them with its own query and top_k and stores its query, time and result.
C13_KeyedOnQuery ==
    [][(last'.op = "get_context" /\ now' = now)
          => IF ctx.result # None /\ last'.query = ctx.query
                  /\ now - ctx.time < context_cooldown
             THEN /\ last'.result = ctx.result[1]
                  /\ ~last'.invoked
                  /\ ctx' = ctx
             ELSE /\ last'.invoked
                  /\ \E boost \in BOOLEAN :
                        last'.result
                          = BuildContext(Retrieve(collection, active_files,
                                                  last'.query, last'.top_k,
                                                  boost))
                  /\ ctx' = [time |-> now, query |-> last'.query,
                             result |-> Some(last'.result)]]_vars

\* The claim C27: the stored result, its query and its time are written only
\* by a call that computes its result, with the time of that call; a call
\* that is served the stored result comes less than the cooldown after that
\* time and leaves the three as they are, so the time of the computation is
\* never moved forward.
C27_ServedWithinCooldown ==
    [][/\ ctx' # ctx
            => /\ last'.op = "get_context" /\ last'.invoked
               /\ ctx' = [time |-> now, query |-> last'.query,
                          result |-> Some(last'.result)]
       /\ (last'.op = "get_context" /\ now' = now /\ ~last'.invoked)
            => /\ ctx' = ctx
               /\ last'.result = ctx.result[1]
               /\ last'.time = now
               /\ now - ctx.time < context_cooldown]_vars

\* C27's case: a call served the stored result in the last second of its
\* cooldown, the result having been computed at the cooldown or later.
C27_Witness ==
    /\ last.op = "get_context" /\ ~last.invoked
    /\ last.time - ctx.time = context_cooldown - 1
    /\ ctx.time >= context_cooldown
    /\ last.result.chunks # <<>>

\* C13's case: a call with top_k = 1 served a stored result of two chunks,
\* which only a call with another top_k can have computed.
C13_Witness ==
    /\ last.op = "get_context" /\ ~last.invoked
    /\ last.top_k = 1
    /\ Len(last.result.chunks) = 2

\* C8's case: a call served from the stored result, a second after the call
\* that computed it, with chunks in it.
C8_Witness ==
    /\ last.op = "get_context" /\ ~last.invoked
    /\ last.time = ctx.time + 1
    /\ last.result.chunks # <<>>

\* --------------------------------------------------------- store claims

AllEqual(lens) == lens[1] = lens[2] /\ lens[2] = lens[3] /\ lens[3] = lens[4]

ShapeMismatch == "ValueError: All input lists must have the same length"

\* The claim C4: add_documents raises its shape-mismatch error, leaving the
\* store as it was, whenever the four lengths are not all equal, and succeeds
\* whenever they are.
C4_ShapeMismatch ==
    [][last'.op = "add_documents"
          => IF AllEqual(last'.lens)
             THEN last'.raised = "none"
             ELSE last'.raised = ShapeMismatch /\ collection' = collection]_vars

\* The claim C10: delete_by_file(p) removes exactly the records whose
\* file_path is p and raises nothing: count() drops by their number, p is no
\* longer among all_file_paths(), the records of every other path stay, and
\* nothing changes when no record matches.
C10_DeleteByFileExact ==
    [][last'.op = "delete_by_file"
          => LET p == last'.path
                 mine == {r \in collection : r.metadata.file_path = p}
             IN  /\ last'.raised = "none"
                 /\ Count(collection') = Count(collection) - Cardinality(mine)
                 /\ p \notin AllFilePaths(collection')
                 /\ \A r \in collection : r.metadata.file_path # p => r \in collection'
                 /\ collection' \subseteq collection
                 /\ (mine = {} => collection' = collection)]_vars

\* C10's case: a delete_by_file that removed records of its path and left
\* records of the other path behind.
C10_Witness ==
    /\ last.op = "delete_by_file"
    /\ last.count > Count(collection)
    /\ collection # {}

\* ------------------------------------------------------- chunker claims

\* The claim C2: chunking a non-blank text no longer than chunk_size (the
\* 21-character "Line 1\nLine 2\nLine 3\n" with chunk_size 100 and overlap 10
\* among them) yields exactly one chunk, chunk_index 0, spanning the whole
\* text.
C2_SingleChunk ==
    (ck.pc = "done" /\ Strip(text) # <<>> /\ Len(text) <= chunk_size)
        => /\ Len(ck.chunks) = 1
           /\ ck.chunks[1].chunk_index = 0
           /\ ck.chunks[1].start_char = 0
           /\ ck.chunks[1].end_char = Len(text)
           /\ ck.chunks[1].text = Strip(text)

C21_IndexIsPosition ==
    \A p \in Paths :
        LET ids == IdsIn(IndexerDocs(p, ck.chunks))
        IN  /\ \A i \in 1..Len(ids) :
                  /\ ck.chunks[i].chunk_index = i - 1
                  /\ ids[i] = GenerateChunkId(p, i - 1)
                  /\ \A j \in 1..Len(ids) : i # j => ids[i] # ids[j]
            /\ ck.pc = "done"
                  => IdsIn(IndexerDocs(p, ChunkText(text, chunk_size, overlap))) = ids

\* C21's case: a returned list whose second chunk comes after a window that
\* gave no chunk.
C21_Witness ==
    /\ ck.pc = "done"
    /\ \E k \in 1..(Len(ck.chunks) - 1) :
          /\ ck.chunks[k + 1].start_char - ck.chunks[k].end_char > overlap
          /\ ck.chunks[k + 1].chunk_index = k

\* The claim C22: for chunk_size > overlap >= 0 the chunks, in their order,
\* have strictly increasing start_char and non-decreasing end_char, and a
\* chunk reaches at most overlap characters into the next one.
C22_RangesOrdered ==
    (chunk_size > overlap /\ overlap >= 0)
        => \A k \in 1..(Len(ck.chunks) - 1) :
              /\ ck.chunks[k].start_char < ck.chunks[k + 1].start_char
              /\ ck.chunks[k].end_char <= ck.chunks[k + 1].end_char
              /\ ck.chunks[k].end_char - ck.chunks[k + 1].start_char <= overlap

\* C22's case: a returned list with a chunk that a break point ended before
\* its window's edge and that reaches exactly overlap characters into the
\* next.
C22_Witness ==
    /\ ck.pc = "done" /\ overlap > 0
    /\ \E k \in 1..(Len(ck.chunks) - 1) :
          /\ ck.chunks[k].end_char < ck.chunks[k].start_char + chunk_size
          /\ ck.chunks[k].end_char - ck.chunks[k + 1].start_char = overlap

\* The claim C23: for chunk_size > overlap >= 0 the loop of chunk_text ends
\* with start at or past the end of the text, never at the iteration cap, so
\* the last chunk reaches the end of a text that ends in no whitespace.
C23_CapNeverCuts ==
    (ck.pc = "done" /\ chunk_size > overlap /\ overlap >= 0 /\ Strip(text) # <<>>)
        => /\ ~ck.capped
           /\ ck.start >= Len(text)
           /\ text[Len(text)] \notin Whitespace
                 => ck.chunks[Len(ck.chunks)].end_char = Len(text)

\* The kinds of break point, the first the most wanted: paragraph break, line
\* break, sentence end, space.
BreakKinds == <<(<<NL, NL>>), (<<NL>>), (<<DOT, SP>>), (<<SP>>)>>

\* Where the break points of kind k lie in the window that starts at s.
Occurrences(k, s) ==
    {i \in s..(s + chunk_size - Len(BreakKinds[k])) :
        \A n \in 1..Len(BreakKinds[k]) : text[i + n] = BreakKinds[k][n]}

\* The break points of kind k that are more than overlap + 1 past s.
Progressing(k, s) == {i \in Occurrences(k, s) : i > s + overlap + 1}

\* The first kind, if any, with a break point in the set S(k).
FirstKind(S(_)) ==
    IF \A k \in 1..4 : S(k) = {} THEN 0
    ELSE CHOOSE k \in 1..4 : S(k) # {} /\ \A j \in 1..(k - 1) : S(j) = {}

\* A pass over a window whose right edge lies before the end of the text.
InnerPass ==
    /\ ck.pc = "loop" /\ ck'.pc = "loop"
    /\ ck.start + chunk_size < Len(text)

\* The claim C24 as stated: in such a pass, if a separator lies more than
\* overlap + 1 past the start, the chunk ends one past the last such break
\* point of the most wanted kind that has one, and else at the window's edge.
C24_BestBreakAsStated ==
    [][InnerPass
          => LET s == ck.start
                 best(k) == Progressing(k, s)
                 kind == FirstKind(best)
             IN  ck'.end = IF kind = 0 THEN s + chunk_size
                           ELSE Highest(best(kind)) + 1]_vars

\* The claim C24 as amended: the chunk ends one past the last break point of
\* the most wanted kind that occurs in the window at all, if that break point
\* lies more than overlap + 1 past the start, and else at the window's edge.
C24_BestBreak ==
    [][InnerPass
          => LET s == ck.start
                 any(k) == Occurrences(k, s)
                 kind == FirstKind(any)
             IN  ck'.end = IF kind # 0 /\ Highest(any(kind)) > s + overlap + 1
                           THEN Highest(any(kind)) + 1
                           ELSE s + chunk_size]_vars

\* C24's case: the chunk of a pass ends one past a line break, before the
\* edge of its window, though a space lies later in the window.
C24_Witness ==
    /\ ck.pc = "loop" /\ ck.chunks # <<>>
    /\ LET c == ck.chunks[Len(ck.chunks)]
       IN  /\ c.end_char = ck.end
           /\ c.start_char + chunk_size < Len(text)
           /\ c.end_char < c.start_char + chunk_size
           /\ text[c.end_char] = NL
           /\ text[c.end_char + 1] = SP

\* The claim C9: every pass of the loop either stops it at the iteration cap
\* or moves start strictly forward, and no pass beyond
\* len(text) / (overlap + 1) + 100 is completed.
C9_Termination ==
    [][(ck.pc = "loop" /\ ck'.pc = "loop")
          => /\ ck'.start > ck.start
             /\ ck'.iteration = ck.iteration + 1
             /\ ck'.iteration <= (Len(text) \div (overlap + 1)) + 100]_vars

\* C9's case: a run that the cap ended, after exactly the capped number of
\* passes.
C9_Witness ==
    /\ ck.pc = "done" /\ ck.capped
    /\ ck.iteration = (Len(text) \div (overlap + 1)) + 100 + 1

====
